---- MODULE Spec2Model ----
(***************************************************************************)
(* Dynamics and control core of the PUMA 560 simulator:                    *)
(*   PIDController / run_pid_controller     (pid_controller.py)            *)
(*   run_forward_dynamics / run_inverse_dynamics   (dynamics.py)           *)
(*                                                                         *)
(* Real numbers are held exactly as integers (or as fractions <<n, d>>).   *)
(* Time is counted in ticks.  Angles inside the solvers are counted in     *)
(* the internal unit of which UnitsPerDeg make one degree.                 *)
(* One behaviour is one use of one entry point: either a PIDController     *)
(* object receiving update calls, or one call of a run_* function.         *)
(***************************************************************************)
EXTENDS Integers, Sequences, FiniteSets, TLC

VARIABLES
    active,   \* which entry point the caller is using: "none" before any call
    pid,      \* the fields of a stand-alone PIDController object
    call,     \* the latest update call on pid: arguments, outcome, history
    fd,       \* the locals of a run_forward_dynamics call
    inv,      \* the locals of a run_inverse_dynamics call
    sim       \* the locals of a run_pid_controller call

vars == <<active, pid, call, fd, inv, sim>>

----------------------------------------------------------------------------
(* Bounds of the model *)

\* number of update calls made on the stand-alone controller
MaxCalls == 3

\* longest duration passed to run_forward_dynamics and run_inverse_dynamics
MaxDuration == 5

\* samples of the closed-loop time grid (1000 in the source)
NumSamples == 4

----------------------------------------------------------------------------
(* Arithmetic helpers *)

Min(a, b) == IF b < a THEN b ELSE a

Max(a, b) == IF b > a THEN b ELSE a

\* a / b for b # 0; the inputs are drawn so that the quotient is exact
RealDiv(a, b) == IF b > 0 THEN a \div b ELSE (0 - a) \div (0 - b)

----------------------------------------------------------------------------
(* PIDController *)

\* the literal 1e6 of the integral clamp
IntegralLimit == 1000000

\* the literal 1e6 of the derivative clamp
DerivativeLimit == 1000000

\* PIDController.__init__
PIDController(Kp, Ki, Kd, setpoint) ==
    [Kp |-> Kp, Ki |-> Ki, Kd |-> Kd, setpoint |-> setpoint,
     integral |-> 0, prev_error |-> 0]

\* faulty variant: the accumulator without its clamp
IntegralNoClamp(c, error, dt) == c.integral + error * dt

\* self.integral += error * dt; self.integral = max(min(self.integral, 1e6), -1e6)
Integral(c, error, dt) ==
    Max(Min(c.integral + error * dt, IntegralLimit), 0 - IntegralLimit)

\* derivative = (error - self.prev_error) / dt, then clamped; for dt # 0
Derivative(c, error, dt) ==
    Max(Min(RealDiv(error - c.prev_error, dt), DerivativeLimit), 0 - DerivativeLimit)

\* faulty variant: the integral term without its gain
OutputNoKi(c, error, integral, derivative) ==
    (c.Kp * error) + integral + (c.Kd * derivative)

\* return (self.Kp * error) + (self.Ki * self.integral) + (self.Kd * derivative)
Output(c, error, integral, derivative) ==
    (c.Kp * error) + (c.Ki * integral) + (c.Kd * derivative)

\* PIDController.update for dt # 0: the controller after the call and the
\* value returned
Update(c, measurement, dt) ==
    LET error == c.setpoint - measurement
        integral == Integral(c, error, dt)
        derivative == Derivative(c, error, dt)
    IN  [ctl |-> [c EXCEPT !.integral = integral, !.prev_error = error],
         raised |-> "none", nan |-> FALSE,
         out |-> Output(c, error, integral, derivative)]

\* PIDController.update for dt = 0.  The division of line 30 is by zero:
\* with Python floats it raises ZeroDivisionError after the integral was
\* stored and before prev_error is; with numpy float64 operands it yields
\* +-inf (clamped to the limit, sign by the numerator and the sign of the
\* zero) or, for 0/0, NaN, which max/min let through and which makes the
\* returned sum NaN whatever the gains.  No branch of the code rejects dt.
UpdateZeroDt(c, measurement) ==
    LET error == c.setpoint - measurement
        integral == Integral(c, error, 0)
        num == error - c.prev_error
        after == [c EXCEPT !.integral = integral, !.prev_error = error]
    IN  {[ctl |-> [c EXCEPT !.integral = integral],
          raised |-> "ZeroDivisionError", nan |-> FALSE, out |-> 0]}
        \cup
        (IF num = 0
         THEN {[ctl |-> after, raised |-> "none", nan |-> TRUE, out |-> 0]}
         ELSE {[ctl |-> after, raised |-> "none", nan |-> FALSE,
                out |-> Output(c, error, integral, s * DerivativeLimit)]
               : s \in {-1, 1}})

\* every outcome update(measurement, dt) can have
UpdateOutcomes(c, measurement, dt) ==
    IF dt = 0 THEN UpdateZeroDt(c, measurement) ELSE {Update(c, measurement, dt)}

----------------------------------------------------------------------------
(* A stand-alone PIDController and its caller *)

\* (Kp, Ki, Kd) the caller constructs controllers with
GainChoices == {<<3, 0, 0>>, <<2, 1, 1>>, <<0, 0, 0>>}

SetpointChoices == {0, 10}

\* measurements the caller passes: small and large errors of both signs
MeasurementChoices == {-600000, 4, 600000}

\* time steps the caller passes, valid and invalid
DtChoices == {-1, 0, 1, 2}

NoPid == PIDController(0, 0, 0, 0)

NoCall ==
    [n |-> 0, measurement |-> 0, dt |-> 1, error |-> 0,
     raised |-> "none", nan |-> FALSE, out |-> 0,
     steady |-> TRUE, pushed |-> 0]

\* the caller constructs a controller
PidConstruct ==
    /\ active = "none"
    /\ \E g \in GainChoices, sp \in SetpointChoices :
          pid' = PIDController(g[1], g[2], g[3], sp)
    /\ active' = "pid"
    /\ UNCHANGED <<call, fd, inv, sim>>

\* the caller calls pid.update(measurement, dt).  call keeps the arguments
\* and the outcome, and over the calls so far: steady, whether every call had
\* dt > 0 and the same error, and pushed, the sum of their error * dt.
PidUpdate ==
    /\ active = "pid"
    /\ call.n < MaxCalls
    /\ \E measurement \in MeasurementChoices, dt \in DtChoices :
       \E r \in UpdateOutcomes(pid, measurement, dt) :
          LET error == pid.setpoint - measurement IN
          /\ pid' = r.ctl
          /\ call' = [n |-> call.n + 1, measurement |-> measurement, dt |-> dt,
                      error |-> error,
                      raised |-> r.raised, nan |-> r.nan, out |-> r.out,
                      steady |-> /\ call.steady
                                 /\ dt > 0
                                 /\ (call.n > 0 => error = call.error),
                      pushed |-> call.pushed + error * dt]
    /\ UNCHANGED <<active, fd, inv, sim>>

----------------------------------------------------------------------------
(* Vectors, matrices, fractions *)

\* robot.n of the Puma560 model, the 6 of np.zeros(6) and range(6)
NJoints == 6

Joints == 1..NJoints

ConstVec(n, v) == [i \in 1..n |-> v]

Zeros(n) == ConstVec(n, 0)

VecAdd(u, v) == [i \in DOMAIN u |-> u[i] + v[i]]

VecSub(u, v) == [i \in DOMAIN u |-> u[i] - v[i]]

VecScale(u, k) == [i \in DOMAIN u |-> u[i] * k]

RECURSIVE Dot(_, _, _)
Dot(u, v, n) == IF n = 0 THEN 0 ELSE Dot(u, v, n - 1) + u[n] * v[n]

\* M @ v
MatVec(M, v) == [i \in Joints |-> Dot(M[i], v, NJoints)]

\* A @ B
MatMul(A, B) ==
    [i \in Joints |-> [j \in Joints |->
        Dot(A[i], [k \in Joints |-> B[k][j]], NJoints)]]

Identity == [i \in Joints |-> [j \in Joints |-> IF i = j THEN 1 ELSE 0]]

\* the fraction n / d, d > 0, as the pair <<n, d>>
FracEq(x, y) == x[1] * y[2] = y[1] * x[2]

FracLess(x, y) == x[1] * y[2] < y[1] * x[2]

\* int(a / b), b # 0: Python's int() truncates towards zero
IntTrunc(a, b) ==
    LET na == IF a < 0 THEN 0 - a ELSE a
        nb == IF b < 0 THEN 0 - b ELSE b
    IN  IF (a < 0) = (b < 0) THEN na \div nb ELSE 0 - (na \div nb)

\* ceil(a / b), b # 0
CeilDiv(a, b) ==
    LET n == IF b < 0 THEN 0 - a ELSE a
        d == IF b < 0 THEN 0 - b ELSE b
    IN  0 - ((0 - n) \div d)

\* np.linspace(0, stop, num): num samples from 0 to stop, both included
Linspace(stop, num) ==
    IF num = 1 THEN << <<0, 1>> >>
    ELSE [i \in 1..num |-> <<(i - 1) * stop, num - 1>>]

\* np.arange(0, stop, step), step # 0: ceil(stop / step) samples 0, step, ...
Arange(stop, step) ==
    LET len == Max(CeilDiv(stop, step), 0)
    IN  [i \in 1..len |-> (i - 1) * step]

\* the factor np.pi / 180.0: one degree is UnitsPerDeg internal angle units
UnitsPerDeg == 2

\* np.array(x_deg) * (np.pi / 180.0)
Deg2Rad(v) == [i \in DOMAIN v |-> v[i] * UnitsPerDeg]

\* x * (180.0 / np.pi), np.rad2deg(x): a fraction of degrees
Rad2Deg(x) == <<x, UnitsPerDeg>>

\* np.array(history) * (180.0 / np.pi)
SeriesRad2Deg(h) == [k \in DOMAIN h |-> [i \in DOMAIN h[k] |-> Rad2Deg(h[k][i])]]

----------------------------------------------------------------------------
(* The Rigid-Body Model: models.DH.Puma560() of roboticstoolbox, an       *)
(* external library.  It is modelled by a family of synthetic 6-joint      *)
(* models with integer matrices: inertia with leading block                *)
(* [[a, c], [c, 1]] and identity elsewhere (c is 1 instead of 0 once joint *)
(* 1 has left 0 when the model locks), constant damping as the Coriolis    *)
(* matrix, and gravity load g0 + stiffness * q.                            *)

NoGravity == Zeros(NJoints)

\* the load of an outstretched arm: joints 2 and 3 carry it
ArmGravity == [i \in Joints |-> IF i = 2 THEN 2 ELSE IF i = 3 THEN 1 ELSE 0]

RobotModels ==
    {[name |-> "free", a |-> 1, c |-> 0, locks |-> FALSE, damping |-> 0,
      g0 |-> NoGravity, stiffness |-> 0],
     [name |-> "spring", a |-> 2, c |-> 1, locks |-> FALSE, damping |-> 1,
      g0 |-> NoGravity, stiffness |-> 1],
     [name |-> "gravity", a |-> 2, c |-> 1, locks |-> FALSE, damping |-> 1,
      g0 |-> ArmGravity, stiffness |-> 0],
     [name |-> "locking", a |-> 1, c |-> 0, locks |-> TRUE, damping |-> 0,
      g0 |-> ArmGravity, stiffness |-> 0]}

\* robot.inertia(q)
Inertia(robot, q) ==
    LET c == IF robot.locks /\ q[1] # 0 THEN 1 ELSE robot.c
    IN  [i \in Joints |-> [j \in Joints |->
            IF i = 1 /\ j = 1 THEN robot.a
            ELSE IF (i = 1 /\ j = 2) \/ (i = 2 /\ j = 1) THEN c
            ELSE IF i = j THEN 1 ELSE 0]]

\* robot.coriolis(q, qd)
Coriolis(robot, q, qd) ==
    [i \in Joints |-> [j \in Joints |-> IF i = j THEN robot.damping ELSE 0]]

\* robot.gravload(q)
Gravload(robot, q) == VecAdd(robot.g0, VecScale(q, robot.stiffness))

\* the adjugate of a matrix of the family's shape
Adjugate(M) ==
    [i \in Joints |-> [j \in Joints |->
        IF i = 1 /\ j = 1 THEN M[2][2]
        ELSE IF i = 2 /\ j = 2 THEN M[1][1]
        ELSE IF (i = 1 /\ j = 2) \/ (i = 2 /\ j = 1) THEN 0 - M[i][j]
        ELSE IF i = j THEN 1 ELSE 0]]

\* faulty variant: a singular M is silently replaced by the identity
LinalgInvFallback(M) ==
    LET X == Adjugate(M)
    IN  IF MatMul(M, X) = Identity
        THEN [raised |-> "none", inv |-> X]
        ELSE [raised |-> "none", inv |-> Identity]

\* np.linalg.inv(M): the X with M @ X = I, or LinAlgError when M is singular
\* (the family's matrices have determinant 1 or 0)
LinalgInv(M) ==
    LET X == Adjugate(M)
    IN  IF MatMul(M, X) = Identity
        THEN [raised |-> "none", inv |-> X]
        ELSE [raised |-> "LinAlgError", inv |-> Identity]

\* the torque the equations of motion are driven with, given the torque
\* vector of the step and the gravity load
AppliedTorque(tau_vector, G) == tau_vector

\* inv(M) @ (tau - C @ qd - G)
Qdd(Minv, C, G, qd, tau) == MatVec(Minv, VecSub(VecSub(tau, MatVec(C, qd)), G))

\* robot.accel(q, qd, tau): the forward form of the equations of motion
Accel(robot, q, qd, tau) ==
    LET inverse == LinalgInv(Inertia(robot, q))
    IN  [raised |-> inverse.raised,
         qdd |-> Qdd(inverse.inv, Coriolis(robot, q, qd), Gravload(robot, q),
                     qd, tau)]

----------------------------------------------------------------------------
(* run_forward_dynamics *)

\* lengths of the vectors a caller passes
LenChoices == {5, 6, 7}

\* durations a caller passes, in ticks: negative, zero and positive
DurationChoices == -2..MaxDuration

\* step sizes a caller passes, in ticks
StepChoices == {-1, 0, 1, 2, 3}

TorqueChoices == {ConstVec(n, v) : n \in LenChoices, v \in {0, 3}}

PositionChoices == {ConstVec(n, v) : n \in LenChoices, v \in {0, 2}}

VelocityChoices == {ConstVec(n, 0) : n \in LenChoices}

\* before a call.  steps_run counts the executions of the loop body.
FdIdle ==
    [pc |-> "idle", robot |-> CHOOSE r \in RobotModels : r.name = "free",
     torque_values |-> <<>>, duration_s |-> 0, dt |-> 1,
     q_initial_deg |-> <<>>, qd_initial_deg |-> <<>>,
     steps |-> 0, t_vec |-> <<>>, q |-> <<>>, qd |-> <<>>, tau_applied |-> <<>>,
     i |-> 0, steps_run |-> 0,
     q_history |-> <<>>, qd_history |-> <<>>, qdd_history |-> <<>>,
     raised |-> "none",
     ret_t |-> <<>>, ret_q |-> <<>>, ret_qd |-> <<>>, ret_qdd |-> <<>>]

\* faulty variant: the count includes the end of the interval
StepsPlusOne(duration_s, dt) == IntTrunc(duration_s, dt) + 1

\* steps = int(duration_s / dt)
Steps(duration_s, dt) == IntTrunc(duration_s, dt)

\* faulty variant: the check on the step count lets a count of zero through
StepsInvalidOnlyNegative(steps) == steps < 0

\* if steps <= 0: raise ValueError("Duration and dt result in zero or
\* negative steps.")
StepsInvalid(steps) == steps <= 0

\* faulty variant: the torque vector is not checked
FdShapeMismatchNoTorque(q, qd, tau_applied) ==
    \/ Len(q) # NJoints
    \/ Len(qd) # NJoints

\* q.shape[0] != n_joints or qd.shape[0] != n_joints or
\* tau_applied.shape[0] != n_joints
FdShapeMismatch(q, qd, tau_applied) ==
    \/ Len(q) # NJoints
    \/ Len(qd) # NJoints
    \/ Len(tau_applied) # NJoints

\* the call up to the loop: the step count and its check, the time vector,
\* the conversion of the inputs and the check of their lengths.  With dt = 0
\* the division of line 12 fails first (ZeroDivisionError for Python floats).
FdCall ==
    /\ active = "none"
    /\ \E robot \in RobotModels,
          torque_values \in TorqueChoices,
          duration_s \in DurationChoices,
          dt \in StepChoices,
          q_initial_deg \in PositionChoices,
          qd_initial_deg \in VelocityChoices :
          LET args == [FdIdle EXCEPT !.robot = robot,
                                     !.torque_values = torque_values,
                                     !.duration_s = duration_s,
                                     !.dt = dt,
                                     !.q_initial_deg = q_initial_deg,
                                     !.qd_initial_deg = qd_initial_deg]
              steps == Steps(duration_s, dt)
              q == Deg2Rad(q_initial_deg)
              qd == Deg2Rad(qd_initial_deg)
              tau_applied == torque_values
          IN  fd' =
                IF dt = 0
                THEN [args EXCEPT !.pc = "raised", !.raised = "ZeroDivisionError"]
                ELSE IF StepsInvalid(steps)
                THEN [args EXCEPT !.pc = "raised", !.steps = steps,
                                  !.raised = "InvalidDuration"]
                ELSE IF FdShapeMismatch(q, qd, tau_applied)
                THEN [args EXCEPT !.pc = "raised", !.steps = steps,
                                  !.t_vec = Linspace(duration_s, steps),
                                  !.q = q, !.qd = qd, !.tau_applied = tau_applied,
                                  !.raised = "DimensionMismatch"]
                ELSE [args EXCEPT !.pc = "loop", !.steps = steps,
                                  !.t_vec = Linspace(duration_s, steps),
                                  !.q = q, !.qd = qd, !.tau_applied = tau_applied]
    /\ active' = "fd"
    /\ UNCHANGED <<pid, call, inv, sim>>

\* qd = qd + qdd * dt
EulerVelocity(qd, qdd, dt) == VecAdd(qd, VecScale(qdd, dt))

\* faulty variant: the position is advanced with the velocity of before the
\* update (explicit Euler)
EulerPositionExplicit(q, qd, qd_next, dt) == VecAdd(q, VecScale(qd, dt))

\* q = q + qd * dt, qd being the velocity just updated
EulerPosition(q, qd, qd_next, dt) == VecAdd(q, VecScale(qd_next, dt))

\* one pass of "for i in range(steps)": the acceleration, the record of the
\* state before the update, then the Euler update
FdStep ==
    /\ active = "fd"
    /\ fd.pc = "loop"
    /\ fd.i < fd.steps
    /\ LET acc == Accel(fd.robot, fd.q, fd.qd, fd.tau_applied)
           qd == EulerVelocity(fd.qd, acc.qdd, fd.dt)
           q == EulerPosition(fd.q, fd.qd, qd, fd.dt)
       IN  fd' =
             IF acc.raised # "none"
             THEN [fd EXCEPT !.pc = "raised", !.raised = acc.raised,
                             !.steps_run = fd.steps_run + 1]
             ELSE [fd EXCEPT !.i = fd.i + 1,
                             !.steps_run = fd.steps_run + 1,
                             !.q_history = Append(fd.q_history, fd.q),
                             !.qd_history = Append(fd.qd_history, fd.qd),
                             !.qdd_history = Append(fd.qdd_history, acc.qdd),
                             !.qd = qd,
                             !.q = q]
    /\ UNCHANGED <<active, pid, call, inv, sim>>

\* after the loop: the histories converted to degrees, and the return
FdReturn ==
    /\ active = "fd"
    /\ fd.pc = "loop"
    /\ fd.i = fd.steps
    /\ fd' = [fd EXCEPT !.pc = "returned",
                        !.ret_t = fd.t_vec,
                        !.ret_q = SeriesRad2Deg(fd.q_history),
                        !.ret_qd = SeriesRad2Deg(fd.qd_history),
                        !.ret_qdd = SeriesRad2Deg(fd.qdd_history)]
    /\ UNCHANGED <<active, pid, call, inv, sim>>

----------------------------------------------------------------------------
(* run_inverse_dynamics *)

\* before a call.  traj_calls counts the calls of rtb.jtraj, rne_calls
\* those of robot.rne.
IdIdle ==
    [pc |-> "idle", q_initial_deg |-> <<>>, q_target_deg |-> <<>>,
     duration_s |-> 0, dt |-> 1, t_vec |-> <<>>,
     q_rad |-> <<>>, qd_rad |-> <<>>, qdd_rad |-> <<>>,
     traj_calls |-> 0, rne_calls |-> 0, raised |-> "none",
     ret_t |-> <<>>, ret_q |-> <<>>, ret_qd |-> <<>>, ret_qdd |-> <<>>,
     ret_tau |-> <<>>]

\* t_vec = np.arange(0, duration_s + dt, dt)
TimeGrid(duration_s, dt) == Arange(duration_s + dt, dt)

\* a series computed by the library (jtraj, rne) over a time grid: one sample
\* per instant of the grid, each known here by its quantity and its instant
LibrarySeries(quantity, t_vec) ==
    [k \in DOMAIN t_vec |-> [of |-> quantity, at |-> t_vec[k]]]

\* series * (180.0 / np.pi)
LibrarySeriesDeg(series) ==
    [k \in DOMAIN series |-> [of |-> series[k].of, at |-> series[k].at,
                               unit |-> "deg"]]

\* q_initial_rad.shape[0] != n_joints, then q_target_rad.shape[0] != n_joints
IdShapeMismatch(q_initial_rad, q_target_rad) ==
    \/ Len(q_initial_rad) # NJoints
    \/ Len(q_target_rad) # NJoints

\* the call up to the trajectory: the time grid, the conversion of the
\* inputs and the checks of their lengths.  With dt = 0 np.arange fails
\* first, dividing by the step.
IdCall ==
    /\ active = "none"
    /\ \E q_initial_deg \in PositionChoices,
          q_target_deg \in PositionChoices,
          duration_s \in DurationChoices,
          dt \in StepChoices :
          LET args == [IdIdle EXCEPT !.q_initial_deg = q_initial_deg,
                                     !.q_target_deg = q_target_deg,
                                     !.duration_s = duration_s,
                                     !.dt = dt]
              q_initial_rad == Deg2Rad(q_initial_deg)
              q_target_rad == Deg2Rad(q_target_deg)
          IN  inv' =
                IF dt = 0
                THEN [args EXCEPT !.pc = "raised", !.raised = "ZeroDivisionError"]
                ELSE IF IdShapeMismatch(q_initial_rad, q_target_rad)
                THEN [args EXCEPT !.pc = "raised",
                                  !.t_vec = TimeGrid(duration_s, dt),
                                  !.raised = "DimensionMismatch"]
                ELSE [args EXCEPT !.pc = "traj",
                                  !.t_vec = TimeGrid(duration_s, dt)]
    /\ active' = "id"
    /\ UNCHANGED <<pid, call, fd, sim>>

\* traj = rtb.jtraj(q_initial_rad, q_target_rad, t_vec) and its three
\* profiles; jtraj takes max(t_vec), a ValueError on an empty grid
IdTraj ==
    /\ active = "id"
    /\ inv.pc = "traj"
    /\ inv' =
         IF Len(inv.t_vec) = 0
         THEN [inv EXCEPT !.pc = "raised", !.raised = "ValueError",
                          !.traj_calls = inv.traj_calls + 1]
         ELSE [inv EXCEPT !.pc = "rne",
                          !.traj_calls = inv.traj_calls + 1,
                          !.q_rad = LibrarySeries("q", inv.t_vec),
                          !.qd_rad = LibrarySeries("qd", inv.t_vec),
                          !.qdd_rad = LibrarySeries("qdd", inv.t_vec)]
    /\ UNCHANGED <<active, pid, call, fd, sim>>

\* torques = robot.rne(q_rad, qd_rad, qdd_rad), the conversions to degrees
\* and the return
IdReturn ==
    /\ active = "id"
    /\ inv.pc = "rne"
    /\ inv' = [inv EXCEPT !.pc = "returned",
                          !.rne_calls = inv.rne_calls + 1,
                          !.ret_t = inv.t_vec,
                          !.ret_q = LibrarySeriesDeg(inv.q_rad),
                          !.ret_qd = LibrarySeriesDeg(inv.qd_rad),
                          !.ret_qdd = LibrarySeriesDeg(inv.qdd_rad),
                          !.ret_tau = LibrarySeries("tau", inv.q_rad)]
    /\ UNCHANGED <<active, pid, call, fd, sim>>

----------------------------------------------------------------------------
(* run_pid_controller *)

\* the horizon of np.linspace(0, 10, 1000), counted in ticks of the grid's
\* own spacing, so that dt = t_steps[1] - t_steps[0] is one tick
SimHorizon == NumSamples - 1

\* setpoints a caller passes, in internal angle units
SetpointVectors ==
    {Zeros(NJoints),
     ConstVec(NJoints, 4),
     [i \in Joints |-> IF i = 1 THEN 10 ELSE 0]}

PIDValue(Kp, Ki, Kd) == [Kp |-> Kp, Ki |-> Ki, Kd |-> Kd]

\* gains a caller passes, one PIDValue per joint
GainVectors ==
    {ConstVec(NJoints, PIDValue(0, 0, 0)),
     ConstVec(NJoints, PIDValue(3, 0, 0)),
     ConstVec(NJoints, PIDValue(2, 1, 1)),
     [i \in Joints |-> IF i = 2 THEN PIDValue(1, 1, 0) ELSE PIDValue(0, 0, 0)]}

\* before a call.  tau_applied keeps, per executed step, the torque vector
\* that entered the acceleration of line 69; measured keeps, per pass of the
\* loop, the positions handed to the six update calls; updates counts the
\* update calls made on each controller.
SimIdle ==
    [pc |-> "idle", robot |-> CHOOSE r \in RobotModels : r.name = "free",
     setpoints |-> <<>>, pid_values |-> <<>>,
     q |-> <<>>, qd |-> <<>>, pids |-> <<>>, t_steps |-> <<>>, dt |-> 0,
     k |-> 0, q_values |-> <<>>, u_values |-> <<>>, tau_applied |-> <<>>,
     measured |-> <<>>, updates |-> <<>>,
     raised |-> "none",
     ret_t |-> <<>>, ret_q |-> <<>>, ret_u |-> <<>>]

\* faulty variant: the gravity feed-forward of the commented-out line is applied
TauVectorFeedForward(tau_pid, G) == VecAdd(tau_pid, G)

\* tau_vector = tau_pid (the gravity feed-forward tau_pid + G is commented out)
TauVector(tau_pid, G) == tau_pid

\* faulty variant: the series records the controller output net of the gravity load
RecordedTorqueNet(tau_vector, G, i) == tau_vector[i] - G[i]

\* u_values[i].append(tau_vector[i])
RecordedTorque(tau_vector, G, i) == tau_vector[i]

\* faulty variant: the sample is appended before the state is advanced
RecordedPositionBefore(q, q_next, i) == Rad2Deg(q[i])

\* q_values[i].append(np.rad2deg(q[i])), q being the position just advanced
RecordedPosition(q, q_next, i) == Rad2Deg(q_next[i])

\* the call up to the loop: the rest state, the six controllers, the time
\* grid and its step, the empty series
SimCall ==
    /\ active = "none"
    /\ \E robot \in RobotModels,
          setpoints \in SetpointVectors,
          pid_values \in GainVectors :
          LET t_steps == Linspace(SimHorizon, NumSamples)
          IN  sim' = [SimIdle EXCEPT
                        !.pc = "loop",
                        !.robot = robot,
                        !.setpoints = setpoints,
                        !.pid_values = pid_values,
                        !.q = Zeros(NJoints),
                        !.qd = Zeros(NJoints),
                        !.pids = [i \in DOMAIN setpoints |->
                                    PIDController(pid_values[i].Kp,
                                                  pid_values[i].Ki,
                                                  pid_values[i].Kd,
                                                  setpoints[i])],
                        !.t_steps = t_steps,
                        !.dt = RealDiv(t_steps[2][1] * t_steps[1][2]
                                         - t_steps[1][1] * t_steps[2][2],
                                       t_steps[2][2] * t_steps[1][2]),
                        !.updates = Zeros(NJoints),
                        !.q_values = [i \in Joints |-> <<>>],
                        !.u_values = [i \in Joints |-> <<>>]]
    /\ active' = "sim"
    /\ UNCHANGED <<pid, call, fd, inv>>

\* one pass of "for _ in t_steps": M, C, G at the current state, the six
\* controller updates, the acceleration (np.linalg.inv raises LinAlgError on
\* a singular M, after the controllers were updated), the Euler update, and
\* the samples appended
SimStep ==
    /\ active = "sim"
    /\ sim.pc = "loop"
    /\ sim.k < Len(sim.t_steps)
    /\ LET M == Inertia(sim.robot, sim.q)
           C == Coriolis(sim.robot, sim.q, sim.qd)
           G == Gravload(sim.robot, sim.q)
           upd == [i \in Joints |-> Update(sim.pids[i], sim.q[i], sim.dt)]
           pids == [i \in Joints |-> upd[i].ctl]
           tau_pid == [i \in Joints |-> upd[i].out]
           tau_vector == TauVector(tau_pid, G)
           inverse == LinalgInv(M)
           applied == AppliedTorque(tau_vector, G)
           qdd == Qdd(inverse.inv, C, G, sim.qd, applied)
           qd == VecAdd(sim.qd, VecScale(qdd, sim.dt))
           q == VecAdd(sim.q, VecScale(qd, sim.dt))
       IN  sim' =
             IF inverse.raised # "none"
             THEN [sim EXCEPT !.pc = "raised", !.raised = inverse.raised,
                              !.pids = pids,
                              !.measured = Append(sim.measured, sim.q),
                              !.updates = [i \in Joints |-> sim.updates[i] + 1]]
             ELSE [sim EXCEPT
                     !.k = sim.k + 1,
                     !.pids = pids,
                     !.qd = qd,
                     !.q = q,
                     !.tau_applied = Append(sim.tau_applied, applied),
                     !.measured = Append(sim.measured, sim.q),
                     !.updates = [i \in Joints |-> sim.updates[i] + 1],
                     !.q_values = [i \in Joints |->
                                     Append(sim.q_values[i],
                                            RecordedPosition(sim.q, q, i))],
                     !.u_values = [i \in Joints |->
                                     Append(sim.u_values[i],
                                            RecordedTorque(tau_vector, G, i))]]
    /\ UNCHANGED <<active, pid, call, fd, inv>>

\* return t_steps, q_values, u_values
SimReturn ==
    /\ active = "sim"
    /\ sim.pc = "loop"
    /\ sim.k = Len(sim.t_steps)
    /\ sim' = [sim EXCEPT !.pc = "returned",
                          !.ret_t = sim.t_steps,
                          !.ret_q = sim.q_values,
                          !.ret_u = sim.u_values]
    /\ UNCHANGED <<active, pid, call, fd, inv>>

----------------------------------------------------------------------------

Init ==
    /\ active = "none"
    /\ pid = NoPid
    /\ call = NoCall
    /\ fd = FdIdle
    /\ inv = IdIdle
    /\ sim = SimIdle

Next ==
    \/ PidConstruct
    \/ PidUpdate
    \/ FdCall
    \/ FdStep
    \/ FdReturn
    \/ IdCall
    \/ IdTraj
    \/ IdReturn
    \/ SimCall
    \/ SimStep
    \/ SimReturn

Spec == Init /\ [][Next]_vars

----------------------------------------------------------------------------
(* Claims about PIDController *)

\* C1: from the constructed state, after any sequence of update calls the
\* integral accumulator lies in [-1e6, 1e6]; and when every call so far had
\* dt > 0 and the same error, and the accumulated error * dt has reached the
\* bound, the accumulator sits exactly at the bound of that sign.
C1_IntegralBounded ==
    /\ pid.integral >= 0 - IntegralLimit
    /\ pid.integral <= IntegralLimit
    /\ (call.n > 0 /\ call.steady /\ call.pushed >= IntegralLimit)
          => pid.integral = IntegralLimit
    /\ (call.n > 0 /\ call.steady /\ call.pushed <= 0 - IntegralLimit)
          => pid.integral = 0 - IntegralLimit

\* a large constant error was applied at least twice with dt > 0, the
\* unclamped sum is past the bound, and the accumulator is at the bound
C1_Witness ==
    /\ call.n >= 2
    /\ call.steady
    /\ call.pushed > IntegralLimit
    /\ pid.integral = IntegralLimit

\* C2 as stated: every update call with dt <= 0 fails with InvalidTimeStep
\* instead of returning a control output.
C2_InvalidTimeStepRaised ==
    (call.n > 0 /\ call.dt <= 0) => call.raised = "InvalidTimeStep"

\* C3: with Ki = 0 and Kd = 0, every update call with dt > 0 returns exactly
\* Kp * (setpoint - measurement), whatever calls preceded it.
C3_ProportionalOnly ==
    (pid.Ki = 0 /\ pid.Kd = 0 /\ call.n > 0 /\ call.dt > 0)
        => /\ call.raised = "none"
           /\ ~call.nan
           /\ call.out = pid.Kp * (pid.setpoint - call.measurement)

\* a proportional-only controller with a non-zero gain returned a non-zero
\* output on a later call, with the accumulator and the previous error
\* both non-zero from the earlier calls
C3_Witness ==
    /\ pid.Ki = 0 /\ pid.Kd = 0 /\ pid.Kp # 0
    /\ call.n >= 2 /\ call.dt > 0
    /\ pid.integral # 0
    /\ call.out # 0
    /\ call.out = pid.Kp * (pid.setpoint - call.measurement)

----------------------------------------------------------------------------
(* Claims about run_forward_dynamics *)

\* floor(a / b) for b # 0, as the specification writes the sample counts
FloorDiv(a, b) == IF b > 0 THEN a \div b ELSE (0 - a) \div (0 - b)

FdLengthsOk ==
    /\ Len(fd.q_initial_deg) = NJoints
    /\ Len(fd.qd_initial_deg) = NJoints
    /\ Len(fd.torque_values) = NJoints

FdNothingReturned ==
    /\ fd.pc # "returned"
    /\ fd.ret_t = <<>> /\ fd.ret_q = <<>> /\ fd.ret_qd = <<>> /\ fd.ret_qdd = <<>>

\* C4: with floor(duration / dt) >= 1 and length-6 inputs the call is not
\* rejected, and the time vector and the position, velocity and acceleration
\* series it returns each have exactly floor(duration / dt) samples (of 6
\* joints each).
C4_SeriesLength ==
    (active = "fd" /\ fd.dt # 0 /\ FloorDiv(fd.duration_s, fd.dt) >= 1
                   /\ FdLengthsOk)
        => /\ fd.raised \notin {"InvalidDuration", "DimensionMismatch"}
           /\ fd.pc = "returned" =>
                /\ Len(fd.ret_t) = FloorDiv(fd.duration_s, fd.dt)
                /\ Len(fd.ret_q) = FloorDiv(fd.duration_s, fd.dt)
                /\ Len(fd.ret_qd) = FloorDiv(fd.duration_s, fd.dt)
                /\ Len(fd.ret_qdd) = FloorDiv(fd.duration_s, fd.dt)
                /\ \A k \in DOMAIN fd.ret_q : Len(fd.ret_q[k]) = NJoints

\* a run of duration 5 with dt 2 returned 2 samples (not 3)
C4_Witness ==
    /\ active = "fd" /\ fd.pc = "returned"
    /\ fd.duration_s = 5 /\ fd.dt = 2
    /\ Len(fd.ret_t) = 2 /\ Len(fd.ret_q) = 2
    /\ Len(fd.ret_qd) = 2 /\ Len(fd.ret_qdd) = 2

\* C5 as stated: the returned time vector is strictly increasing and sample
\* i of the series is paired with the instant i * dt of the integration.
C5_TimeAligned ==
    (active = "fd" /\ fd.pc = "returned" /\ fd.duration_s > 0 /\ fd.dt > 0)
        => /\ \A k \in DOMAIN fd.ret_t :
                FracEq(fd.ret_t[k], <<(k - 1) * fd.dt, 1>>)
           /\ \A k \in DOMAIN fd.ret_t :
                k > 1 => FracLess(fd.ret_t[k - 1], fd.ret_t[k])

\* C6: whenever floor(duration / dt) <= 0 the call fails with
\* InvalidDuration, with no pass of the integration loop executed and
\* nothing returned; and whenever the loop is entered the step count is a
\* positive integer, floor(duration / dt).
C6_InvalidDuration ==
    /\ (active = "fd" /\ fd.dt # 0 /\ FloorDiv(fd.duration_s, fd.dt) <= 0)
          => /\ fd.pc = "raised"
             /\ fd.raised = "InvalidDuration"
             /\ fd.steps_run = 0
             /\ fd.q_history = <<>>
             /\ FdNothingReturned
    /\ (active = "fd" /\ (fd.pc \in {"loop", "returned"} \/ fd.steps_run > 0))
          => /\ fd.steps >= 1
             /\ fd.steps = FloorDiv(fd.duration_s, fd.dt)

\* a call with length-6 inputs and a duration smaller than dt was rejected
C6_Witness ==
    /\ active = "fd" /\ FdLengthsOk
    /\ fd.duration_s = 1 /\ fd.dt = 2
    /\ fd.pc = "raised" /\ fd.raised = "InvalidDuration"
    /\ fd.steps_run = 0

----------------------------------------------------------------------------
(* Claims about the length checks of both solvers *)

IdLengthsOk ==
    /\ Len(inv.q_initial_deg) = NJoints
    /\ Len(inv.q_target_deg) = NJoints

IdNothingReturned ==
    /\ inv.pc # "returned"
    /\ inv.ret_t = <<>> /\ inv.ret_q = <<>> /\ inv.ret_qd = <<>>
    /\ inv.ret_qdd = <<>> /\ inv.ret_tau = <<>>

FdFailsDimensionMismatch ==
    /\ fd.pc = "raised"
    /\ fd.raised = "DimensionMismatch"
    /\ fd.steps_run = 0
    /\ fd.q_history = <<>>
    /\ FdNothingReturned

IdFailsDimensionMismatch ==
    /\ inv.pc = "raised"
    /\ inv.raised = "DimensionMismatch"
    /\ inv.traj_calls = 0
    /\ inv.rne_calls = 0
    /\ IdNothingReturned

\* C7 as stated: a vector of a length other than 6 makes
\* run_forward_dynamics, and run_inverse_dynamics, fail with
\* DimensionMismatch before any computation, returning nothing.
C7_Original ==
    /\ (active = "fd" /\ ~FdLengthsOk) => FdFailsDimensionMismatch
    /\ (active = "id" /\ ~IdLengthsOk) => IdFailsDimensionMismatch

\* C7 (amended): a vector of a length other than 6 makes
\* run_forward_dynamics fail with DimensionMismatch when dt # 0 and
\* int(duration / dt) >= 1, and run_inverse_dynamics when dt # 0, in each
\* case before any dynamics or trajectory computation and returning
\* nothing; otherwise the failure of the step count (InvalidDuration) or of
\* the division by dt comes first.
C7_DimensionMismatch ==
    /\ (active = "fd" /\ ~FdLengthsOk /\ fd.dt # 0
                      /\ IntTrunc(fd.duration_s, fd.dt) >= 1)
          => FdFailsDimensionMismatch
    /\ (active = "id" /\ ~IdLengthsOk /\ inv.dt # 0)
          => IdFailsDimensionMismatch
    /\ (active = "fd" /\ ~FdLengthsOk) => FdNothingReturned /\ fd.steps_run = 0
    /\ (active = "id" /\ ~IdLengthsOk) => IdNothingReturned /\ inv.traj_calls = 0

\* a 5-element torque vector, with valid positions, velocities, duration
\* and dt, was rejected with DimensionMismatch
C7_Witness ==
    /\ active = "fd"
    /\ Len(fd.torque_values) = 5
    /\ Len(fd.q_initial_deg) = NJoints /\ Len(fd.qd_initial_deg) = NJoints
    /\ fd.duration_s = 2 /\ fd.dt = 1
    /\ FdFailsDimensionMismatch

----------------------------------------------------------------------------
(* Claims about run_inverse_dynamics *)

\* C8 as stated: for duration > 0 and dt > 0 the time grid has exactly
\* floor(duration / dt) + 1 samples, starts at 0, is spaced by dt and has no
\* sample greater than duration; the four series have the grid's length.
C8_TimeGrid ==
    (active = "id" /\ inv.pc = "returned" /\ inv.duration_s > 0 /\ inv.dt > 0)
        => /\ Len(inv.ret_t) = FloorDiv(inv.duration_s, inv.dt) + 1
           /\ inv.ret_t[1] = 0
           /\ \A k \in DOMAIN inv.ret_t :
                k > 1 => inv.ret_t[k] - inv.ret_t[k - 1] = inv.dt
           /\ \A k \in DOMAIN inv.ret_t : inv.ret_t[k] <= inv.duration_s
           /\ Len(inv.ret_q) = Len(inv.ret_t)
           /\ Len(inv.ret_qd) = Len(inv.ret_t)
           /\ Len(inv.ret_qdd) = Len(inv.ret_t)
           /\ Len(inv.ret_tau) = Len(inv.ret_t)

----------------------------------------------------------------------------
(* Claims about run_pid_controller *)

ZeroGainsZeroSetpoints ==
    /\ sim.setpoints = Zeros(NJoints)
    /\ \A i \in Joints :
          sim.pid_values[i].Kp = 0 /\ sim.pid_values[i].Ki = 0
              /\ sim.pid_values[i].Kd = 0

TorqueSeriesZero ==
    \A i \in Joints : \A k \in DOMAIN sim.u_values[i] : sim.u_values[i][k] = 0

PositionSeriesAtRest ==
    \A i \in Joints : \A k \in DOMAIN sim.q_values[i] :
        FracEq(sim.q_values[i][k], <<0, 1>>)

\* C9: at every executed step and for every joint, the torque appended to
\* the torque series equals the torque that entered that step's
\* acceleration computation.
C9_RecordedIsApplied ==
    active = "sim" =>
        \A i \in DOMAIN sim.u_values :
            /\ Len(sim.u_values[i]) = Len(sim.tau_applied)
            /\ \A k \in DOMAIN sim.u_values[i] :
                  sim.u_values[i][k] = sim.tau_applied[k][i]

\* two steps were executed on a model with a non-zero gravity load, with
\* non-zero gains, and a non-zero torque was recorded
C9_Witness ==
    /\ active = "sim" /\ sim.k >= 2
    /\ sim.robot.name = "gravity"
    /\ sim.pid_values[2].Ki # 0
    /\ sim.u_values[2][2] # 0
    /\ sim.u_values[2][2] = sim.tau_applied[2][2]

\* C10 as stated: with zero setpoints and zero gains, for any model, the
\* recorded torque is zero at every step and the recorded position stays at
\* the rest configuration q = 0.
C10_Original ==
    (active = "sim" /\ ZeroGainsZeroSetpoints)
        => TorqueSeriesZero /\ PositionSeriesAtRest

\* C10 (amended): with zero setpoints and zero gains the recorded torque is
\* zero for every joint at every step; the recorded position stays at the
\* rest configuration when the model's gravity load at q = 0 is zero.
C10_ZeroGains ==
    (active = "sim" /\ ZeroGainsZeroSetpoints)
        => /\ TorqueSeriesZero
           /\ Gravload(sim.robot, Zeros(NJoints)) = Zeros(NJoints)
                 => PositionSeriesAtRest

\* with zero setpoints and zero gains the whole run was executed on a model
\* that is more than a double integrator and has no gravity load at rest:
\* every recorded torque is zero and every recorded position is at rest
C10_Witness ==
    /\ active = "sim" /\ ZeroGainsZeroSetpoints
    /\ sim.pc = "returned" /\ sim.k = NumSamples
    /\ sim.robot.name = "spring"
    /\ \A i \in Joints : Len(sim.ret_u[i]) = NumSamples
    /\ TorqueSeriesZero /\ PositionSeriesAtRest

\* the determinant of an inertia matrix of the family's shape
InertiaDet(M) == M[1][1] * M[2][2] - M[1][2] * M[2][1]

SimNothingReturned ==
    /\ sim.pc # "returned"
    /\ sim.ret_t = <<>> /\ sim.ret_q = <<>> /\ sim.ret_u = <<>>

\* C11: when the inertia matrix is not invertible at the configuration a
\* step of run_pid_controller starts from, that step fails with the singular
\* matrix error (numpy's LinAlgError) without advancing the state or
\* appending a sample; after the failure nothing more is executed, and the
\* caller receives no series, not even the samples of the earlier steps.
C11_SingularAborts ==
    [][/\ (/\ active = "sim" /\ sim.pc = "loop" /\ sim.k < Len(sim.t_steps)
           /\ InertiaDet(Inertia(sim.robot, sim.q)) = 0)
          => /\ sim'.pc = "raised"
             /\ sim'.raised = "LinAlgError"
             /\ sim'.k = sim.k
             /\ sim'.q = sim.q /\ sim'.qd = sim.qd
             /\ sim'.q_values = sim.q_values /\ sim'.u_values = sim.u_values
             /\ sim'.ret_t = <<>> /\ sim'.ret_q = <<>> /\ sim'.ret_u = <<>>
       /\ (active = "sim" /\ sim.pc = "raised") => sim' = sim
       /\ (active = "sim" /\ sim.pc = "loop" /\ sim'.pc = "raised")
          => InertiaDet(Inertia(sim.robot, sim.q)) = 0]_vars

\* a run was aborted by a singular inertia matrix after at least one step
\* had been executed and recorded, and nothing was returned
C11_Witness ==
    /\ active = "sim"
    /\ sim.pc = "raised" /\ sim.raised = "LinAlgError"
    /\ sim.k >= 1 /\ sim.k < Len(sim.t_steps)
    /\ Len(sim.q_values[1]) = sim.k
    /\ InertiaDet(Inertia(sim.robot, sim.q)) = 0
    /\ SimNothingReturned

----------------------------------------------------------------------------
(* The integration scheme of run_forward_dynamics *)

\* C12: in the series of run_forward_dynamics, in the internal angle unit,
\* sample 0 is the caller's initial position and velocity; each recorded
\* acceleration is the model's acceleration at the recorded position and
\* velocity under the same constant torque; consecutive samples satisfy
\* qd[i+1] = qd[i] + qdd[i] * dt and q[i+1] = q[i] + qd[i+1] * dt; the
\* returned series are these histories, and the state produced by the final
\* update is held by the integrator but not recorded.
C12_SemiImplicitEuler ==
    active = "fd" =>
        LET n == Len(fd.q_history) IN
        /\ Len(fd.qd_history) = n /\ Len(fd.qdd_history) = n
        /\ n >= 1 =>
             /\ fd.q_history[1] =
                  [i \in Joints |-> fd.q_initial_deg[i] * UnitsPerDeg]
             /\ fd.qd_history[1] =
                  [i \in Joints |-> fd.qd_initial_deg[i] * UnitsPerDeg]
        /\ \A k \in 1..n :
             fd.qdd_history[k] =
                Accel(fd.robot, fd.q_history[k], fd.qd_history[k],
                      fd.torque_values).qdd
        /\ \A k \in 1..(n - 1) : \A i \in Joints :
             /\ fd.qd_history[k + 1][i] =
                  fd.qd_history[k][i] + fd.qdd_history[k][i] * fd.dt
             /\ fd.q_history[k + 1][i] =
                  fd.q_history[k][i] + fd.qd_history[k + 1][i] * fd.dt
        /\ fd.pc = "returned" =>
             /\ n = fd.steps
             /\ Len(fd.ret_q) = n /\ Len(fd.ret_qd) = n /\ Len(fd.ret_qdd) = n
             /\ \A k \in 1..n : \A i \in Joints :
                  /\ fd.ret_q[k][i] = <<fd.q_history[k][i], UnitsPerDeg>>
                  /\ fd.ret_qd[k][i] = <<fd.qd_history[k][i], UnitsPerDeg>>
                  /\ fd.ret_qdd[k][i] = <<fd.qdd_history[k][i], UnitsPerDeg>>
             /\ \A i \in Joints :
                  /\ fd.qd[i] = fd.qd_history[n][i] + fd.qdd_history[n][i] * fd.dt
                  /\ fd.q[i] = fd.q_history[n][i] + fd.qd[i] * fd.dt

\* a run of three steps or more returned, under a non-zero torque and from a
\* non-zero position, on a model with coupling, damping and stiffness: the
\* second position differs from what the velocity of before the update would
\* have given, and the state after the final update differs from the last
\* sample
C12_Witness ==
    /\ active = "fd" /\ fd.pc = "returned"
    /\ fd.robot.name = "spring"
    /\ Len(fd.q_history) >= 3
    /\ fd.torque_values[2] # 0 /\ fd.q_initial_deg[2] # 0
    /\ fd.q_history[1][2] = fd.q_initial_deg[2] * UnitsPerDeg
    /\ fd.q_history[2][2] # fd.q_history[1][2] + fd.qd_history[1][2] * fd.dt
    /\ fd.q_history[2][2] = fd.q_history[1][2] + fd.qd_history[2][2] * fd.dt
    /\ fd.q # fd.q_history[Len(fd.q_history)]

----------------------------------------------------------------------------
(* The order of a step of run_pid_controller *)

\* the error controller i saw in pass j of the loop (0 before the first)
SeenError(i, j) ==
    IF j = 0 THEN 0 ELSE sim.setpoints[i] - sim.measured[j][i]

RECURSIVE SeenErrorSum(_, _)
SeenErrorSum(i, j) ==
    IF j = 0 THEN 0 ELSE SeenErrorSum(i, j - 1) + SeenError(i, j) * sim.dt

\* the PID law on the positions controller i was handed in passes 1..j (the
\* runs of the model stay inside the clamps)
TorqueFromSeen(i, j) ==
    sim.pid_values[i].Kp * SeenError(i, j)
        + sim.pid_values[i].Ki * SeenErrorSum(i, j)
        + sim.pid_values[i].Kd
            * ((SeenError(i, j) - SeenError(i, j - 1)) \div sim.dt)

\* C13: run_pid_controller records exactly one position and one torque
\* sample per joint per step, as many as the time grid has samples when it
\* returns; in each step every controller is updated exactly once, with its
\* joint's position of before the step, then the state is advanced, then the
\* samples are appended: the k-th position sample is the state after k
\* integration steps (the rest configuration the run starts from is not a
\* sample) and the k-th torque sample was computed from the state after
\* k - 1 steps.
C13_StepOrder ==
    active = "sim" =>
        /\ sim.pc \in {"loop", "returned"} =>
             /\ Len(sim.measured) = sim.k
             /\ \A i \in Joints :
                  /\ sim.updates[i] = sim.k
                  /\ Len(sim.q_values[i]) = sim.k
                  /\ Len(sim.u_values[i]) = sim.k
                  /\ sim.k >= 1 =>
                       sim.q_values[i][sim.k] = <<sim.q[i], UnitsPerDeg>>
        /\ sim.pc = "raised" =>
             \A i \in Joints :
                  /\ sim.updates[i] = sim.k + 1
                  /\ Len(sim.q_values[i]) = sim.k
                  /\ Len(sim.u_values[i]) = sim.k
        /\ \A i \in Joints : \A j \in DOMAIN sim.u_values[i] :
             /\ sim.measured[j][i] =
                  IF j = 1 THEN 0 ELSE sim.q_values[i][j - 1][1]
             /\ sim.q_values[i][j][2] = UnitsPerDeg
             /\ sim.u_values[i][j] = TorqueFromSeen(i, j)
        /\ sim.pc = "returned" =>
             /\ sim.k = NumSamples
             /\ Len(sim.ret_t) = NumSamples
             /\ \A i \in Joints :
                  /\ Len(sim.ret_q[i]) = NumSamples
                  /\ Len(sim.ret_u[i]) = NumSamples

\* a run with non-zero gains and a non-zero setpoint returned: the first
\* position sample of joint 1 is already away from the rest configuration,
\* the first torque sample is the controller's answer to the rest
\* configuration, and the second torque sample answers the first position
\* sample
C13_Witness ==
    /\ active = "sim" /\ sim.pc = "returned"
    /\ sim.pid_values[1].Kp = 3 /\ sim.setpoints[1] = 10
    /\ Len(sim.ret_q[1]) = NumSamples /\ Len(sim.ret_u[1]) = NumSamples
    /\ sim.ret_q[1][1][1] # 0
    /\ sim.ret_u[1][1] = 3 * 10
    /\ sim.ret_u[1][2] = 3 * (10 - sim.ret_q[1][1][1])
    /\ sim.ret_u[1][2] # sim.ret_u[1][1]
    /\ sim.updates[1] = NumSamples

====
